---- MODULE Spec2Model ----
(***************************************************************************)
(* eSett Price Data Viewer (src/app.py): a Streamlit script.  Every user   *)
(* interaction re-runs the script top to bottom; one action of this model  *)
(* is one such run: the sidebar widgets take their new values, the fetch   *)
(* handler runs when the Fetch Data button was pressed, and the display    *)
(* section renders from st.session_state.                                  *)
(*                                                                         *)
(* Time is counted in hours (timestamps of records) and in days relative   *)
(* to today (the date widgets, 0 = today).  A formatted string is the      *)
(* record of the fields it spells out.                                     *)
(*                                                                         *)
(* Not modelled: the price columns and the chart (the API's records are    *)
(* taken to carry the price fields the display section reads), and the     *)
(* check boxes, which only select chart traces and on-screen columns.      *)
(* Line 219 of app.py, line=dict(color='color1, width=2), is an            *)
(* unterminated string literal: as committed the script does not compile.  *)
(* The model reads it as line=dict(color=color1, width=2).                 *)
(***************************************************************************)
EXTENDS Integers, Sequences, FiniteSets, TLC

VARIABLES
    mba_label,      \* sidebar: selected Market Balance Area label
    start_date,     \* sidebar: start date widget
    end_date,       \* sidebar: end date widget
    cache,          \* st.cache_data of fetch_esett_data: key -> DataFrame
    session_state,  \* st.session_state: 'esett_data' and 'mba_label'
    download,       \* the download button rendered by the last run, if any
    script_runs,    \* history: number of script runs of the session
    fetch_log       \* history: one entry per press of Fetch Data

vars == <<mba_label, start_date, end_date, cache, session_state, download,
          script_runs, fetch_log>>

----------------------------------------------------------------------------
(* Bounds of the model *)

\* records in one API response
MaxRecords == 2
\* record instants range over 0..MaxInstant (hours)
MaxInstant == 1
\* the date widgets range over today-MaxBack..today
MaxBack == 1
\* script runs (user interactions) in one session
MaxRuns == 4

(* Program constants *)

\* tz_convert('Etc/GMT-2'): a fixed offset of two hours
UTC_OFFSET_HOURS == 2
\* value=end_date - timedelta(days=30)
DEFAULT_SPAN_DAYS == 30
\* df[display_cols].tail(100)
DISPLAY_ROWS == 100

----------------------------------------------------------------------------
(* The sidebar *)

mba_options ==
    [l \in {"SE3 (Stockholm)", "FI (Finland)"} |->
        IF l = "FI (Finland)" THEN "10YFI_1________U" ELSE "SE3"]

Labels == DOMAIN mba_options

Dates == (0 - MaxBack)..0

----------------------------------------------------------------------------
(* Values of the API's timestamp fields.  kind is how the value is         *)
(* written: "absent" (the record has no such field), "bad" (unparseable),  *)
(* "naive" (parseable, no UTC offset), "aware" (parseable, written with a  *)
(* Z suffix or an offset); t is the instant, in hours.                     *)

Absent == [kind |-> "absent", t |-> 0]
Bad == [kind |-> "bad", t |-> 0]
Instants == 0..MaxInstant
Parseable == [kind : {"naive", "aware"}, t : Instants]
FieldValues == {Absent, Bad} \cup Parseable

\* One JSON object of the response.  When it carries both fields they
\* spell the same value.
Records ==
    {r \in [timestamp : FieldValues, timestampUTC : FieldValues] :
        r.timestamp = Absent \/ r.timestampUTC \in {Absent, r.timestamp}}

SeqsUpTo(S, n) == UNION {[1..k -> S] : k \in 0..n}

\* What requests.get meets: a failure (network error or HTTP error status)
\* or a JSON array of records.
Failure == [ok |-> FALSE, body |-> <<>>]
Json(body) == [ok |-> TRUE, body |-> body]

Replies == {Failure} \cup {Json(b) : b \in SeqsUpTo(Records, MaxRecords)}

\* One reply of each shape the fetch handler tells apart, for the sessions:
\* a failure, no record, a record without timestamp field, an unparseable
\* value, two tables of offset-less values, a value written with Z.
Only(field, value) ==
    IF field = "timestamp" THEN [timestamp |-> value, timestampUTC |-> Absent]
    ELSE [timestamp |-> Absent, timestampUTC |-> value]

SessionReplies ==
    {Failure,
     Json(<<>>),
     Json(<<Only("timestamp", Absent)>>),
     Json(<<Only("timestamp", Bad)>>),
     Json(<<Only("timestampUTC", [kind |-> "naive", t |-> 0])>>),
     Json(<<Only("timestamp", [kind |-> "naive", t |-> 1]), Only("timestamp", Bad),
            Only("timestamp", [kind |-> "naive", t |-> 0])>>),
     Json(<<Only("timestamp", [kind |-> "aware", t |-> 0])>>)}

----------------------------------------------------------------------------
(* datetime values and their formatting *)

\* datetime.min.time() and datetime.max.time()
time_min == [hour |-> 0, minute |-> 0, second |-> 0, microsecond |-> 0]
time_max == [hour |-> 23, minute |-> 59, second |-> 59, microsecond |-> 999999]

\* datetime.combine(date, time)
combine(date, time) ==
    [date |-> date, hour |-> time.hour, minute |-> time.minute,
     second |-> time.second, microsecond |-> time.microsecond]

\* dt.strftime("%Y-%m-%dT%H:%M:%S.000Z"): the fields the string spells.
\* The milliseconds and the Z are literal text of the format.
strftime(dt) ==
    [date |-> dt.date, hour |-> dt.hour, minute |-> dt.minute,
     second |-> dt.second, millis |-> 0, suffix |-> "Z"]

\* The query parameters of the GET.
request_params(start_dt, end_dt, mba) ==
    [start |-> strftime(start_dt), end |-> strftime(end_dt), mba |-> mba]

----------------------------------------------------------------------------
(* pandas: a datetime Series is its timezone ("naive", or the name of a    *)
(* zone) and its values, each NaT or a wall-clock hour count.  A DataFrame *)
(* is its timestamp-bearing columns and its rows; a row keeps the index of *)
(* the record it was built from.                                           *)

NaT == [nat |-> TRUE, t |-> 0]
Timestamp(t) == [nat |-> FALSE, t |-> t]

UtcOffset(tz) == IF tz = "Etc/GMT-2" THEN UTC_OFFSET_HOURS ELSE 0

\* pd.DataFrame()
EmptyDataFrame == [columns |-> {}, rows |-> <<>>]

\* Columns, were the frame taken to have both timestamp columns whatever
\* the records hold
Columns_assumed(data) == {"timestamp", "timestampUTC"}

\* df.columns of pd.DataFrame(data): the union of the records' keys
Columns(data) ==
    {c \in {"timestamp", "timestampUTC"} :
        \E i \in DOMAIN data : data[i][c] # Absent}

\* pd.to_datetime(column, errors='coerce'): every outcome a pandas build
\* can produce.  Values all written without offset give a naive Series,
\* values all written with one give a tz-aware Series, what does not parse
\* (or is missing) becomes NaT.  A column mixing both writings is, by the
\* pandas version and the first value's format, refused with ValueError or
\* parsed in one writing with the values of the other coerced to NaT.
to_datetime(column) ==
    LET kinds == {column[i].kind : i \in DOMAIN column} \cap {"naive", "aware"}
        coerce(kind) ==
            [i \in DOMAIN column |->
                IF column[i].kind = kind THEN Timestamp(column[i].t) ELSE NaT]
        naive == [raises |-> "none", tz |-> "naive", values |-> coerce("naive")]
        aware == [raises |-> "none", tz |-> "UTC", values |-> coerce("aware")]
    IN  IF kinds = {"naive", "aware"}
        THEN {naive, aware, [raises |-> "ValueError", tz |-> "naive", values |-> <<>>]}
        ELSE IF kinds = {"aware"} THEN {aware} ELSE {naive}

\* Series.dt.tz_localize('UTC'): a naive Series gets the zone, its wall
\* clock kept; a tz-aware Series is refused with TypeError.
tz_localize(series, tz) ==
    IF series.tz # "naive"
    THEN [raises |-> "TypeError", tz |-> series.tz, values |-> series.values]
    ELSE [raises |-> "none", tz |-> tz, values |-> series.values]

\* Series.dt.tz_convert(tz): same instants, wall clock of the new zone
tz_convert(series, tz) ==
    [raises |-> "none", tz |-> tz,
     values |-> [i \in DOMAIN series.values |->
        IF series.values[i].nat THEN NaT
        ELSE Timestamp(series.values[i].t - UtcOffset(series.tz) + UtcOffset(tz))]]

\* Series.dt.tz_localize(None): the zone dropped, the wall clock kept
tz_strip(series) ==
    [raises |-> "none", tz |-> "naive", values |-> series.values]

\* dropna, were the rows with NaT kept
dropna_keeps(rows) == rows

\* df.dropna(subset=['timestamp'])
dropna(rows) == SelectSeq(rows, LAMBDA r : ~r.timestamp.nat)

\* the order sort_values leaves two rows in: NaT last
NotAfter(a, b) == b.timestamp.nat \/ (~a.timestamp.nat /\ a.timestamp.t <= b.timestamp.t)

\* df.sort_values('timestamp'): the default quicksort is not stable, rows
\* of equal timestamp may come out in either order.
sort_values(rows) ==
    LET n == Len(rows)
        orders == {s \in [1..n -> 1..n] :
                      /\ \A i, j \in 1..n : i # j => s[i] # s[j]
                      /\ \A i, j \in 1..n : i < j => NotAfter(rows[s[i]], rows[s[j]])}
    IN  {[i \in 1..n |-> rows[s[i]]] : s \in orders}

\* is_empty, were the check for an empty response missing
is_empty_never(data) == FALSE

\* `if not data`
is_empty(data) == data = <<>>

\* The field the timestamps are read from: 'timestamp' if the frame has
\* such a column, else 'timestampUTC'.
timestamp_source(data) ==
    IF "timestamp" \in Columns(data) THEN "timestamp" ELSE "timestampUTC"

\* The results fetch_esett_data can come to on the reply of the API: the
\* exception it raises ("none": it returns df), the table it returns.
fetch_esett_data(reply) ==
    LET data == reply.body
        columns == Columns(data)
        source == timestamp_source(data)
        raise(e) == [raises |-> e, df |-> EmptyDataFrame]
        normalize(parsed) ==
            LET localized == tz_localize(parsed, "UTC")
                local == tz_strip(tz_convert(localized, "Etc/GMT-2"))
                rows == [i \in DOMAIN data |->
                            [index |-> i, timestamp |-> local.values[i]]]
            IN  IF parsed.raises # "none" THEN {raise(parsed.raises)}
                ELSE IF localized.raises # "none" THEN {raise(localized.raises)}
                ELSE {[raises |-> "none",
                       df |-> [columns |-> columns \cup {"timestamp"}, rows |-> sorted]] :
                            sorted \in sort_values(dropna(rows))}
    IN  IF ~reply.ok THEN {raise("RequestException")}
        ELSE IF is_empty(data) THEN {[raises |-> "none", df |-> EmptyDataFrame]}
        ELSE IF columns = {} THEN {raise("ValueError")}
        ELSE UNION {normalize(parsed) :
                        parsed \in to_datetime([i \in DOMAIN data |-> data[i][source]])}

----------------------------------------------------------------------------
(* The script.  An optional value is the set of at most one element.       *)

Some(S) == CHOOSE x \in S : TRUE

\* @st.cache_data keys a call by its arguments
cache_key(start, end, label) ==
    <<combine(start, time_min), combine(end, time_max), mba_options[label]>>

\* cache_hit, were the function not cached
cache_hit_never(key) == FALSE

\* st.cache_data: a stored return value is served without running the body
cache_hit(key) == key \in DOMAIN cache

\* st.cache_data stores what the function returns; a call that raises
\* stores nothing
cache_put(key, result) ==
    IF result.raises = "none"
    THEN [k \in DOMAIN cache \cup {key} |-> IF k = key THEN result.df ELSE cache[k]]
    ELSE cache

\* http_gets, were a failed GET retried once
http_gets_retry(reply) == IF reply.ok THEN 1 ELSE 2

\* requests.get(url, params=params, headers=headers, timeout=30): one GET,
\* no retry adapter is mounted
http_gets(reply) == 1

\* df.empty
empty(df) == df.columns = {} \/ df.rows = <<>>

\* The branch of the fetch handler a result of fetch_esett_data takes.
handler_message(result) ==
    CASE result.raises = "RequestException" -> "API request failed"
      [] result.raises = "ValueError" -> "Data parsing error"
      [] result.raises \notin {"none", "RequestException", "ValueError"} -> "Error"
      [] OTHER ->
            IF empty(result.df) THEN "No data available"
            ELSE IF "timestamp" \notin result.df.columns THEN "Data format error"
            ELSE "Fetched"

\* st.stop() ends the run: nothing after the handler is rendered
stops(message) == message \in {"No data available", "Data format error"}

\* store, were the area label stored on every fetch
store_label_always(message, df, label) ==
    [esett_data |-> IF message = "Fetched" THEN {df} ELSE session_state.esett_data,
     mba_label |-> {label}]

\* st.session_state['esett_data'] = df; st.session_state['mba_label'] = mba_label
store(message, df, label) ==
    IF message = "Fetched"
    THEN [esett_data |-> {df}, mba_label |-> {label}]
    ELSE session_state

\* df[display_cols].tail(100)
tail(rows, n) ==
    IF Len(rows) <= n THEN rows ELSE SubSeq(rows, Len(rows) - n + 1, Len(rows))

\* The display section: the on-screen table and the download button.
display(state, start, end, stopped) ==
    IF stopped \/ state.esett_data = {} THEN {}
    ELSE LET df == Some(state.esett_data)
             label == IF state.mba_label = {} THEN "Unknown" ELSE Some(state.mba_label)
         IN  {[table |-> tail(df.rows, DISPLAY_ROWS),
               data |-> df.rows,
               file_name |-> [mba_label |-> label, start_date |-> start, end_date |-> end]]}

Init ==
    /\ mba_label = "SE3 (Stockholm)"
    /\ end_date = 0
    /\ start_date = 0 - DEFAULT_SPAN_DAYS
    /\ cache = <<>>
    /\ session_state = [esett_data |-> {}, mba_label |-> {}]
    /\ download = {}
    /\ script_runs = 0
    /\ fetch_log = <<>>

\* A run the Fetch Data button did not trigger: the handler is skipped.
Rerun ==
    /\ script_runs < MaxRuns
    /\ script_runs' = script_runs + 1
    /\ download' = display(session_state, start_date', end_date', FALSE)
    /\ UNCHANGED <<cache, session_state, fetch_log>>

\* The user picks a Market Balance Area.
SelectArea(label) ==
    /\ mba_label' = label
    /\ UNCHANGED <<start_date, end_date>>
    /\ Rerun

\* The user picks a start date.
SelectStartDate(date) ==
    /\ start_date' = date
    /\ UNCHANGED <<mba_label, end_date>>
    /\ Rerun

\* The user picks an end date.  The start date widget's default value is
\* computed from the end date: the widget keeps its value or is rebuilt
\* with the new default.
SelectEndDate(date) ==
    /\ end_date' = date
    /\ start_date' \in {start_date, date - DEFAULT_SPAN_DAYS}
    /\ UNCHANGED mba_label
    /\ Rerun

\* The user presses Fetch Data; reply is what the API answers if asked.
PressFetch(reply) ==
    LET key == cache_key(start_date, end_date, mba_label)
        hit == cache_hit(key)
        gets == IF hit THEN 0 ELSE http_gets(reply)
        results == IF hit THEN {[raises |-> "none", df |-> cache[key]]}
                   ELSE fetch_esett_data(reply)
    IN  /\ script_runs < MaxRuns
        /\ script_runs' = script_runs + 1
        /\ \E result \in results :
            LET message == handler_message(result)
            IN  /\ cache' = IF hit THEN cache ELSE cache_put(key, result)
                /\ session_state' = store(message, result.df, mba_label)
                /\ download' = display(session_state', start_date, end_date, stops(message))
                /\ fetch_log' = Append(fetch_log,
                      [mba_label |-> mba_label, start_date |-> start_date,
                       end_date |-> end_date, key |-> key,
                       requests |-> [i \in 1..gets |-> request_params(key[1], key[2], key[3])],
                       reply |-> IF hit THEN {} ELSE {reply},
                       raises |-> result.raises,
                       returned |-> IF result.raises = "none" THEN {result.df} ELSE {},
                       message |-> message])
        /\ UNCHANGED <<mba_label, start_date, end_date>>

Next ==
    \/ \E label \in Labels : SelectArea(label)
    \/ \E date \in Dates : SelectStartDate(date)
    \/ \E date \in Dates : SelectEndDate(date)
    \/ \E reply \in SessionReplies : PressFetch(reply)

Spec == Init /\ [][Next]_vars

(* The first press of Fetch Data of a session, on every reply within the  *)
(* bounds: one call of fetch_esett_data with nothing cached.               *)

FirstFetch == \E reply \in Replies : script_runs = 0 /\ PressFetch(reply)

SpecFetch == Init /\ [][FirstFetch]_vars

----------------------------------------------------------------------------
(* The claims.  They read the session's history: fetch_log holds, for each *)
(* press of Fetch Data, the sidebar values, what was sent, what the API    *)
(* answered, what fetch_esett_data raised or returned, and the branch the  *)
(* handler took.                                                           *)

Presses == DOMAIN fetch_log

\* the press issued a request and the API answered with JSON records
Answered(e) == e.reply # {} /\ Some(e.reply).ok

Body(e) == Some(e.reply).body

\* the value of record i that the timestamps are read from
Stamp(e, i) == Body(e)[i][timestamp_source(Body(e))]

Parses(value) == value.kind \in {"naive", "aware"}

Rows(e) == Some(e.returned).rows

\* fetch_esett_data returned a table with rows
Succeeded(e) == e.raises = "none" /\ e.returned # {} /\ Rows(e) # <<>>

ErrorMessages == {"API request failed", "Data parsing error", "Error"}

\* the last press so far that returned a table with rows, 0 if none did
LastSucceeded ==
    LET good == {i \in Presses : Succeeded(fetch_log[i])}
    IN  IF good = {} THEN 0 ELSE CHOOSE i \in good : \A j \in good : j <= i

\* C1: a reply mixing parseable and unparseable timestamp values makes
\* fetch_esett_data return, without raising, a table of exactly the records
\* whose value parses, in non-decreasing order of timestamp.
C1_MixedReplyKeepsValidRowsSorted ==
    \A k \in Presses :
        LET e == fetch_log[k]
        IN  (/\ Answered(e)
             /\ \E i \in DOMAIN Body(e) : Parses(Stamp(e, i))
             /\ \E i \in DOMAIN Body(e) : ~Parses(Stamp(e, i)))
            => /\ e.raises = "none"
               /\ {Rows(e)[n].index : n \in DOMAIN Rows(e)}
                    = {i \in DOMAIN Body(e) : Parses(Stamp(e, i))}
               /\ Len(Rows(e)) = Cardinality({i \in DOMAIN Body(e) : Parses(Stamp(e, i))})
               /\ \A m, n \in DOMAIN Rows(e) :
                    m < n => Rows(e)[m].timestamp.t <= Rows(e)[n].timestamp.t

\* C2: every parseable value of a reply, written with a Z suffix or
\* without, comes out as the naive timestamp of its UTC instant plus two
\* hours; no error is raised.
C2_EveryTimestampIsInstantPlusTwoHours ==
    \A k \in Presses :
        LET e == fetch_log[k]
        IN  (Answered(e) /\ \E i \in DOMAIN Body(e) : Parses(Stamp(e, i)))
            => /\ e.raises = "none"
               /\ \A i \in DOMAIN Body(e) :
                    Parses(Stamp(e, i)) =>
                        \E n \in DOMAIN Rows(e) :
                            /\ Rows(e)[n].index = i
                            /\ Rows(e)[n].timestamp = Timestamp(Stamp(e, i).t + UTC_OFFSET_HOURS)

\* C3: a non-empty reply whose records all lack both timestamp fields makes
\* fetch_esett_data raise ValueError, reported as a data parsing error; no
\* table is returned, cached or stored in the session.
C3_NoTimestampFieldIsSchemaError ==
    [][(Len(fetch_log') > Len(fetch_log)
        /\ Answered(fetch_log'[Len(fetch_log')])
        /\ Body(fetch_log'[Len(fetch_log')]) # <<>>
        /\ \A i \in DOMAIN Body(fetch_log'[Len(fetch_log')]) :
              /\ Body(fetch_log'[Len(fetch_log')])[i].timestamp = Absent
              /\ Body(fetch_log'[Len(fetch_log')])[i].timestampUTC = Absent)
       => /\ fetch_log'[Len(fetch_log')].raises = "ValueError"
          /\ fetch_log'[Len(fetch_log')].message = "Data parsing error"
          /\ fetch_log'[Len(fetch_log')].returned = {}
          /\ session_state' = session_state
          /\ cache' = cache]_vars

C3_Witness ==
    /\ session_state.esett_data # {}
    /\ \E k \in Presses :
        /\ Answered(fetch_log[k])
        /\ Body(fetch_log[k]) # <<>>
        /\ \A i \in DOMAIN Body(fetch_log[k]) :
              Body(fetch_log[k])[i] = [timestamp |-> Absent, timestampUTC |-> Absent]
        /\ fetch_log[k].message = "Data parsing error"

\* C4: a reply with zero records makes fetch_esett_data return an empty
\* table without raising, and the handler shows the no-data warning, none
\* of the error messages.
C4_EmptyReplyIsWarningNotError ==
    \A k \in Presses :
        LET e == fetch_log[k]
        IN  (Answered(e) /\ Body(e) = <<>>)
            => /\ e.raises = "none"
               /\ e.returned # {}
               /\ Rows(e) = <<>>
               /\ e.message = "No data available"
               /\ e.message \notin ErrorMessages

C4_Witness ==
    \E k \in Presses :
        /\ Answered(fetch_log[k])
        /\ Body(fetch_log[k]) = <<>>
        /\ fetch_log[k].message = "No data available"

\* C5: once a fetch for a (start, end, area) triple has returned, every
\* later fetch with the same triple issues no HTTP request and returns the
\* same table.
C5_RepeatedFetchIsServedFromCache ==
    \A i, j \in Presses :
        (i < j /\ fetch_log[i].key = fetch_log[j].key /\ fetch_log[i].raises = "none")
        => /\ fetch_log[j].requests = <<>>
           /\ fetch_log[j].raises = "none"
           /\ fetch_log[j].returned = fetch_log[i].returned

C5_Witness ==
    \E i, j \in Presses :
        /\ i < j
        /\ fetch_log[i].key = fetch_log[j].key
        /\ Len(fetch_log[i].requests) = 1
        /\ Succeeded(fetch_log[i])
        /\ fetch_log[j].requests = <<>>
        /\ fetch_log[j].returned = fetch_log[i].returned

\* C6 as stated: no two rows of a returned table carry the same timestamp,
\* whatever the reply holds.
C6_TimestampsUnique ==
    \A k \in Presses :
        fetch_log[k].returned # {} =>
            \A m, n \in DOMAIN Rows(fetch_log[k]) :
                m # n => Rows(fetch_log[k])[m].timestamp # Rows(fetch_log[k])[n].timestamp

\* C6 as amended: no row of a returned table has a missing timestamp, every
\* record gives at most one row, and two rows carry the same timestamp only
\* if their records carry the same instant in the reply.
C6_DuplicatesOnlyFromTheReply ==
    \A k \in Presses :
        LET e == fetch_log[k]
        IN  (Answered(e) /\ e.returned # {}) =>
                /\ \A n \in DOMAIN Rows(e) : ~Rows(e)[n].timestamp.nat
                /\ \A m, n \in DOMAIN Rows(e) :
                    m # n =>
                        /\ Rows(e)[m].index # Rows(e)[n].index
                        /\ Rows(e)[m].timestamp = Rows(e)[n].timestamp
                            => Stamp(e, Rows(e)[m].index).t = Stamp(e, Rows(e)[n].index).t

C6_Witness ==
    \E k \in Presses :
        /\ Answered(fetch_log[k])
        /\ \E i \in DOMAIN Body(fetch_log[k]) : ~Parses(Stamp(fetch_log[k], i))
        /\ fetch_log[k].returned # {}
        /\ Len(Rows(fetch_log[k])) = 1

\* C7: the request's start parameter is the start date at 00:00:00.000 and
\* its end parameter the end date at 23:59:59.999, each with a Z suffix.
C7_RequestCoversFullDays ==
    \A k \in Presses :
        \A n \in DOMAIN fetch_log[k].requests :
            /\ fetch_log[k].requests[n].start =
                  [date |-> fetch_log[k].start_date, hour |-> 0, minute |-> 0,
                   second |-> 0, millis |-> 0, suffix |-> "Z"]
            /\ fetch_log[k].requests[n].end =
                  [date |-> fetch_log[k].end_date, hour |-> 23, minute |-> 59,
                   second |-> 59, millis |-> 999, suffix |-> "Z"]

\* C8: a press of Fetch Data issues at most one HTTP GET, a failing attempt
\* exactly one (no retry), and a press whose parameters have only failed so
\* far asks the API again: the failure is not served from the cache.
C8_FailedFetchIsTerminalAndNotCached ==
    \A j \in Presses :
        /\ Len(fetch_log[j].requests) <= 1
        /\ fetch_log[j].raises # "none" => Len(fetch_log[j].requests) = 1
        /\ (/\ \E i \in Presses : i < j /\ fetch_log[i].key = fetch_log[j].key
            /\ \A i \in Presses :
                (i < j /\ fetch_log[i].key = fetch_log[j].key) => fetch_log[i].raises # "none")
           => Len(fetch_log[j].requests) = 1

C8_Witness ==
    \E i, j \in Presses :
        /\ i < j
        /\ fetch_log[i].key = fetch_log[j].key
        /\ fetch_log[i].raises = "RequestException"
        /\ Len(fetch_log[j].requests) = 1
        /\ \E k \in Presses : fetch_log[k].raises = "ValueError"

\* C9: the stored table and the stored area label are those of the most
\* recent fetch that returned a table with rows, and are absent while no
\* fetch has: failed and empty fetches, and runs that do not fetch, leave
\* both as they were.
C9_StoredPairIsLastSuccessfulFetch ==
    IF LastSucceeded = 0
    THEN session_state = [esett_data |-> {}, mba_label |-> {}]
    ELSE session_state = [esett_data |-> fetch_log[LastSucceeded].returned,
                          mba_label |-> {fetch_log[LastSucceeded].mba_label}]

C9_Witness ==
    /\ LastSucceeded # 0
    /\ LastSucceeded < Len(fetch_log)
    /\ \E k \in Presses :
        /\ k > LastSucceeded
        /\ fetch_log[k].mba_label # fetch_log[LastSucceeded].mba_label
        /\ fetch_log[k].message \in ErrorMessages
    /\ \E k \in Presses :
        /\ k > LastSucceeded
        /\ fetch_log[k].message = "No data available"

\* C10: the download button carries every row of the stored table, and its
\* file name spells the area label, start date and end date of the fetch
\* that stored that table.
C10_DownloadNamesTheFetchThatStoredTheTable ==
    download # {} =>
        /\ LastSucceeded # 0
        /\ Some(download).data = Rows(fetch_log[LastSucceeded])
        /\ Some(download).file_name =
              [mba_label |-> fetch_log[LastSucceeded].mba_label,
               start_date |-> fetch_log[LastSucceeded].start_date,
               end_date |-> fetch_log[LastSucceeded].end_date]

====
